---- MODULE Spec2Model ----
(***************************************************************************)
(* Model of the Markdown-to-PDF converter:                                 *)
(*   src/markdown_to_pdf_converter.py  MarkdownToPDFConverter               *)
(*   src/main.py                       ConversionThread                     *)
(*                                                                         *)
(* Three specifications share the definitions below:                       *)
(*   SpecOpt    optimize_image applied to one image                        *)
(*   SpecEmbed  embed_images_in_html applied to a document, then to its    *)
(*              own output                                                 *)
(*   Spec       convert_to_pdf calls (direct, or through                    *)
(*              ConversionThread.run) made one after another               *)
(*   SpecConc   the same calls made by two threads on one converter        *)
(***************************************************************************)
EXTENDS Integers, Sequences, FiniteSets, TLC

(***************************************************************************)
(* Bounds                                                                  *)
(***************************************************************************)
MaxDim == 22        \* image widths and heights range over 1..MaxDim (SpecOpt)
MaxWidthArg == 15   \* max_width arguments range over 1..MaxWidthArg (SpecOpt)
MaxImgs == 2        \* img elements per document (SpecEmbed)
MaxCalls == 2       \* convert_to_pdf calls per behaviour (Spec, SpecConc)

(***************************************************************************)
(* Python values                                                           *)
(***************************************************************************)
None == [kind |-> "None"]
Str(text) == [kind |-> "str", text |-> text]
EmptyStr == Str(<<>>)
NoAttr == [kind |-> "absent"]          \* an attribute the tag does not carry

Front(s) == SubSeq(s, 1, Len(s) - 1)
Reverse(s) == [i \in 1..Len(s) |-> s[Len(s) + 1 - i]]

(***************************************************************************)
(* Byte strings.  An image file is described by what PIL reads from it;    *)
(* "junk" bytes are bytes Image.open cannot identify.  encoder tells the   *)
(* bytes PIL wrote ("PIL") from the bytes of the original file, and         *)
(* generation counts the lossy encodings the pixels have been through:     *)
(* encoding a JPEG again does not give the same bytes.                     *)
(***************************************************************************)
EmptyBytes == [kind |-> "empty"]
Junk == [kind |-> "junk"]
ImageBytes(fmt, mode, w, h) ==
    [kind |-> "image", format |-> fmt, mode |-> mode, width |-> w,
     height |-> h, encoder |-> "original", generation |-> 0]

Modes == {"1", "L", "P", "RGB", "RGBA", "LA", "CMYK", "I", "F"}
\* the file format each input mode is read from in this model
FormatOf(mode) ==
    CASE mode \in {"P"} -> "GIF"
      [] mode \in {"CMYK"} -> "JPEG"
      [] mode \in {"I", "F"} -> "TIFF"
      [] OTHER -> "PNG"

(***************************************************************************)
(* IEEE-754 double arithmetic for  int(img.height * (max_width/img.width)) *)
(* (lines 74-75).  A double has a 53-bit significand; numbers are kept as  *)
(* sequences of 9-bit limbs, least significant first.                      *)
(***************************************************************************)
MantissaBits == 53
LimbBits == 9
Base == 512
QLimbs == 6         \* 54 bits: significand and the rounding bit

RECURSIVE Pow2(_)
Pow2(n) == IF n = 0 THEN 1 ELSE 2 * Pow2(n - 1)

\* number of zero bits after the binary point of r/w before its first one bit
RECURSIVE LeadingZeros(_, _)
LeadingZeros(r, w) == IF 2 * r >= w THEN 0 ELSE 1 + LeadingZeros(2 * r, w)

\* the first n base-512 digits of r/w (0 <= r < w), followed by the remainder
RECURSIVE Expand(_, _, _)
Expand(r, w, n) ==
    IF n = 0 THEN <<r>>
    ELSE <<(r * Base) \div w>> \o Expand((r * Base) % w, w, n - 1)

RECURSIVE AddSmall(_, _)
AddSmall(limbs, a) ==
    IF a = 0 THEN limbs
    ELSE IF limbs = <<>> THEN <<a>>
    ELSE LET t == Head(limbs) + a
         IN IF t >= Base THEN <<t - Base>> \o AddSmall(Tail(limbs), 1)
            ELSE <<t>> \o Tail(limbs)

RECURSIVE MulSmall(_, _, _)
MulSmall(limbs, k, carry) ==
    IF limbs = <<>>
    THEN IF carry = 0 THEN <<>>
         ELSE <<carry % Base>> \o MulSmall(<<>>, k, carry \div Base)
    ELSE LET t == Head(limbs) * k + carry
         IN <<t % Base>> \o MulSmall(Tail(limbs), k, t \div Base)

Bit(limbs, i) ==
    LET j == (i \div LimbBits) + 1
    IN IF j > Len(limbs) THEN 0 ELSE (limbs[j] \div Pow2(i % LimbBits)) % 2

BitLen(limbs) ==
    LET ones == {i \in 0..(LimbBits * Len(limbs) - 1) : Bit(limbs, i) = 1}
    IN IF ones = {} THEN 0 ELSE 1 + (CHOOSE i \in ones : \A j \in ones : j <= i)

RECURSIVE HighPart(_, _, _)
HighPart(limbs, from, to) ==
    IF from > to THEN 0 ELSE Bit(limbs, from) + 2 * HighPart(limbs, from + 1, to)

\* ratio = max_width / img.width, correctly rounded (ties to even), for
\* 0 < m < w: the significand scaled by 2, so that ratio = Ratio * 2^-(z+54)
Ratio(m, w) ==
    LET z == LeadingZeros(m, w)
        e == Expand(m * Pow2(z), w, QLimbs)
        E == Reverse(SubSeq(e, 1, QLimbs))
        sticky == e[QLimbs + 1] # 0
        adj == IF Bit(E, 0) = 0 THEN 0
               ELSE IF sticky \/ Bit(E, 1) = 1 THEN 1 ELSE -1
    IN IF adj = -1 THEN <<Head(E) - 1>> \o Tail(E) ELSE AddSmall(E, adj)

\* new_height = int(img.height * ratio): the product rounded to a double
\* (ties to even), then truncated toward zero
TruncMulDivRounded(h, m, w) == (2 * h * m + w) \div (2 * w)
TruncMulDiv(h, m, w) ==
    LET sh == LeadingZeros(m, w) + MantissaBits + 1
        P == MulSmall(Ratio(m, w), h, 0)
        L == BitLen(P)
        s == L - MantissaBits
        up == /\ s > 0
              /\ Bit(P, s - 1) = 1
              /\ \/ \E i \in 0..(s - 2) : Bit(P, i) = 1
                 \/ Bit(P, s) = 1
        \* rounding up reaches the integer part only through a run of ones
        carryIn == up /\ \A i \in s..(sh - 1) : Bit(P, i) = 1
    IN HighPart(P, sh, L - 1) + (IF carryIn THEN 1 ELSE 0)

(***************************************************************************)
(* optimize_image (lines 66-83)                                            *)
(***************************************************************************)
DefaultMaxWidth == 800
\* the modes PIL's JPEG encoder accepts, and the mode of the file it writes
JpegModes == {"1", "L", "RGB", "RGBX", "CMYK", "YCbCr"}
JpegModeOf(mode) ==
    CASE mode = "1" -> "L"
      [] mode = "RGBX" -> "RGB"
      [] OTHER -> mode

optimize_imageNoConvert(image_data, max_width) ==
    IF image_data.kind # "image"
    THEN image_data
    ELSE LET resize == image_data.width > max_width
             new_height == TruncMulDiv(image_data.height, max_width,
                                       image_data.width)
         IN IF resize /\ new_height < 1
            THEN image_data
            ELSE IF image_data.mode \notin JpegModes
            THEN image_data
            ELSE [kind |-> "image", format |-> "JPEG",
                  mode |-> JpegModeOf(image_data.mode),
                  width |-> IF resize THEN max_width ELSE image_data.width,
                  height |-> IF resize THEN new_height ELSE image_data.height,
                  encoder |-> "PIL",
                  generation |-> image_data.generation + 1]
optimize_image(image_data, max_width) ==
    IF image_data.kind # "image"
    THEN image_data                       \* Image.open raises: line 83
    ELSE LET mode == IF image_data.mode \in {"RGBA", "LA", "P"}
                     THEN "RGB" ELSE image_data.mode
             resize == image_data.width > max_width
             new_height == TruncMulDiv(image_data.height, max_width,
                                       image_data.width)
         IN IF resize /\ new_height < 1
            THEN image_data               \* resize raises ValueError: line 83
            ELSE IF mode \notin JpegModes
            THEN image_data               \* save raises OSError: line 83
            ELSE [kind |-> "image", format |-> "JPEG",
                  mode |-> JpegModeOf(mode),
                  width |-> IF resize THEN max_width ELSE image_data.width,
                  height |-> IF resize THEN new_height ELSE image_data.height,
                  encoder |-> "PIL",
                  generation |-> image_data.generation + 1]

(***************************************************************************)
(* Image references and the environment they are resolved in.  A reference *)
(* is the text of a src attribute: a leading part (prefix) and the rest.   *)
(***************************************************************************)
Ref(prefix, rest) == [kind |-> "str", prefix |-> prefix, rest |-> rest]
RemoteWide == Ref("https://", "cdn.example/wide.png")
RemoteNotFound == Ref("http://", "cdn.example/gone.png")
RemoteDown == Ref("https://", "unreachable.example/a.png")
RemoteEmpty == Ref("http://", "cdn.example/empty.png")
LocalSmall == Ref("", "img/small.png")
LocalMissing == Ref("", "img/missing.png")
LocalEmpty == Ref("", "img/empty.png")
LocalFlat == Ref("", "img/rule.gif")
LocalGray16 == Ref("", "img/scan.tif")
LocalDir == Ref("", "img")
AbsSvg == Ref("/", "srv/logo.svg")
Refs == {RemoteWide, RemoteNotFound, RemoteDown, RemoteEmpty, LocalSmall,
         LocalMissing, LocalEmpty, LocalFlat, LocalGray16, LocalDir, AbsSvg}

\* base64.b64encode(...).decode('utf-8') and the data URI of line 97
b64encode(bytes) == [b64 |-> bytes]
DataUri(bytes) == Ref("data:image/jpeg;base64,", b64encode(bytes))

\* what requests.get(url, timeout=30) meets: a response, or an exception
Raised == [raised |-> TRUE]
Response(status, content) ==
    [raised |-> FALSE, status_code |-> status, content |-> content]
requests_get(url) ==
    CASE url = RemoteWide -> Response(200, ImageBytes("PNG", "RGBA", 1600, 900))
      [] url = RemoteNotFound -> Response(404, Junk)
      [] url = RemoteEmpty -> Response(200, EmptyBytes)
      [] OTHER -> Raised

\* the image files and directories on disk, by directory and relative text;
\* the directory "" is the working directory
Directory == [kind |-> "directory"]
LocalPath(dir, url) == [dir |-> dir, rel |-> url]
DiskEntries ==
    (LocalPath("docs", LocalSmall) :> ImageBytes("PNG", "RGB", 500, 300)) @@
    (LocalPath("docs", LocalEmpty) :> EmptyBytes) @@
    (LocalPath("docs", LocalFlat) :> ImageBytes("GIF", "P", 1000, 1)) @@
    (LocalPath("docs", LocalGray16) :> ImageBytes("TIFF", "I", 1200, 600)) @@
    (LocalPath("docs", LocalDir) :> Directory) @@
    (LocalPath("", LocalSmall) :> ImageBytes("PNG", "LA", 820, 410)) @@
    (LocalPath("", AbsSvg) :> Junk)
os_path_exists(local_path) == local_path \in DOMAIN DiskEntries

(***************************************************************************)
(* download_image (lines 42-64): the bytes, or None                        *)
(***************************************************************************)
Exception(text) == [kind |-> "exception", text |-> text]
IsException(v) == v.kind = "exception"
Truthy(v) == v # None /\ v # EmptyStr /\ v # EmptyBytes /\ v # NoAttr

\* lines 44-61, the body of the try block: the bytes, None, or the exception
download_image_try(url, base_path) ==
    IF url.prefix \notin {"http://", "https://"}
    THEN LET local_path == IF Truthy(base_path) /\ url.prefix # "/"
                           THEN LocalPath(base_path.dir, url)
                           ELSE LocalPath("", url)
         IN IF os_path_exists(local_path)
            THEN IF DiskEntries[local_path] = Directory
                 THEN Exception("IsADirectoryError")       \* open raises
                 ELSE DiskEntries[local_path]
            ELSE None
    ELSE LET response == requests_get(url)
         IN IF response.raised
            THEN Exception("RequestException")             \* requests.get raises
            ELSE IF response.status_code >= 400
            THEN Exception("HTTPError")            \* raise_for_status raises
            ELSE response.content

download_imageDecodesDataUri(url, base_path) ==
    IF url.prefix = "data:image/jpeg;base64,"
    THEN url.rest.b64
    ELSE LET r == download_image_try(url, base_path)
         IN IF IsException(r) THEN None ELSE r
download_imageUncaught(url, base_path) == download_image_try(url, base_path)
\* lines 42-64: the except clause turns every exception into None
download_image(url, base_path) ==
    LET r == download_image_try(url, base_path)
    IN IF IsException(r) THEN None ELSE r

(***************************************************************************)
(* embed_images_in_html (lines 85-104).  A document is the sequence of its *)
(* img elements, in document order; a style is a sequence of text pieces.  *)
(***************************************************************************)
Img(src, style) == [src |-> src, style |-> style]
Html(tags) == [kind |-> "html", tags |-> tags]
MaxWidthTexts == {"max-width: 50%", "max-width: 100%"}
Responsive == <<"max-width: 100%", ";", " ", "height: auto", ";">>
Contains_max_width(style) ==
    \E i \in 1..Len(style.text) : style.text[i] \in MaxWidthTexts

\* the body of the loop (lines 89-102) for one tag: the tag as it is left,
\* or the exception the body raises
embed_tag(img_tag, base_path) ==
    IF ~Truthy(img_tag.src)
    THEN img_tag                          \* continue: line 91
    ELSE LET image_data == download_image(img_tag.src, base_path)
         IN IF IsException(image_data)
            THEN image_data
            ELSE IF ~Truthy(image_data)
            THEN img_tag
            ELSE LET optimized_data == optimize_image(image_data, DefaultMaxWidth)
                     style == IF img_tag.style = NoAttr THEN EmptyStr ELSE img_tag.style
                 IN Img(DataUri(optimized_data),
                        IF ~Contains_max_width(style)
                        THEN Str(style.text \o Responsive) ELSE style)

\* the tags whose processing raised, and the loop's result (lines 88-104):
\* the document returned, or the first exception a tag's processing raised
FailedTags(img_tags) ==
    {i \in 1..Len(img_tags) : "kind" \in DOMAIN img_tags[i]}
LoopResult(img_tags, failed) ==
    IF failed = {} THEN Html(img_tags)
    ELSE img_tags[CHOOSE i \in failed : \A j \in failed : i <= j]
SoupResult(img_tags) == LoopResult(img_tags, FailedTags(img_tags))
embed_images_in_html(html_content, base_path) ==
    SoupResult([i \in 1..Len(html_content.tags) |->
                   embed_tag(html_content.tags[i], base_path)])

(***************************************************************************)
(* markdown_to_html (lines 106-116) and create_full_html (lines 118-232).  *)
(* Markdown text is the sequence of its image items: ![alt](target), or an *)
(* inline <img> tag, which Markdown passes through.                        *)
(***************************************************************************)
MdImage(target) == [syntax |-> "markdown", target |-> target]
RawImg(tag) == [syntax |-> "html", tag |-> tag]
markdown_to_html(markdown_content) ==
    Html([i \in 1..Len(markdown_content.items) |->
            IF markdown_content.items[i].syntax = "markdown"
            THEN Img(markdown_content.items[i].target, NoAttr)
            ELSE markdown_content.items[i].tag])

\* line 118: title="Converted Document" is what the parameter holds when the
\* caller passes no title; a title that is passed is used as it is
Omitted == [kind |-> "omitted"]
DefaultTitle == Str(<<"Converted Document">>)
create_full_html(html_content, title) ==
    [title |-> IF title = Omitted THEN DefaultTitle ELSE title,
     body |-> html_content]

(***************************************************************************)
(* State                                                                   *)
(***************************************************************************)
Pending == [done |-> FALSE]
Done(value) == [done |-> TRUE, value |-> value]

VARIABLES
    image_data,     \* SpecOpt: the bytes given to optimize_image
    max_width,      \* SpecOpt: its max_width argument
    optimized,      \* SpecOpt: the bytes it returned
    html_content,   \* SpecEmbed: the document given to embed_images_in_html
    base_path,      \* SpecEmbed: its base_path argument
    embedded,       \* SpecEmbed: the document it returned
    reembedded,     \* SpecEmbed: what it returned for its own output
    doc_title,      \* SpecDoc: the title given to create_full_html, if any
    full_html,      \* SpecDoc: the document it returned
    convert_btn,    \* SpecGui: whether the convert button is enabled
    conversion_thread, \* SpecGui: self.conversion_thread, 0 for None
    running,        \* SpecGui: the threads for which isRunning() holds
    handled,        \* SpecGui: per thread, the finished signals handled
    last_start,     \* SpecGui: what the last start_conversion did
    temp_files,     \* converter.temp_files: the temporary paths it tracks
    pdf_options,    \* converter.pdf_options
    options_updates,\* how often pdf_options was updated since __init__
    temp_dir,       \* the temporary files that exist on disk
    next_temp,      \* names NamedTemporaryFile has handed out so far
    concurrent,     \* whether callers may overlap their calls (SpecConc)
    calls,          \* calls started so far
    pc,             \* per thread: where it is in run / convert_to_pdf
    call,           \* per thread: the arguments of its current call
    local,          \* per thread: the local variables of convert_to_pdf
    render,         \* per thread: the renderer invocation of its call
    outcome,        \* per thread: what convert_to_pdf returned or raised
    emitted,        \* per thread: the conversion_finished signals of its run
    progress        \* per thread: the last progress_updated value emitted

imgVars == <<image_data, max_width, optimized, html_content, base_path,
             embedded, reembedded>>
docVars == <<doc_title, full_html>>
guiVars == <<convert_btn, conversion_thread, running, handled, last_start>>
\* what no step of convert_to_pdf or of ConversionThread.run touches
sideVars == <<imgVars, docVars, guiVars>>
converterVars == <<temp_files, pdf_options, options_updates>>
envVars == <<temp_dir, next_temp, concurrent, calls>>
threadVars == <<pc, call, local, render, outcome, emitted, progress>>
jobVars == <<converterVars, envVars, threadVars>>
vars == <<sideVars, jobVars>>

(***************************************************************************)
(* Paths.  A path is a directory and a file name; a name is the sequence   *)
(* of its dot-separated parts ("notes.v2.md" is <<"notes", "v2", "md">>,  *)
(* ".notes" is <<"", "notes">>).  kind tells a str from a pathlib.Path.    *)
(***************************************************************************)
MdPath(dir, name) == [kind |-> "str", dir |-> dir, name |-> name]

\* Path(p).stem: the name without its last suffix; a name without a dot, or
\* whose only dot is its first character, has no suffix
StemFirstPart(name) == <<name[1]>>
Stem(name) ==
    IF Len(name) > 1 /\ ~(Len(name) = 2 /\ name[1] = "")
    THEN Front(name) ELSE name

\* lines 246-247: md_path.parent / f"{md_path.stem}.pdf"
DefaultOutput(markdown_file_path) ==
    [kind |-> "Path", dir |-> markdown_file_path.dir,
     name |-> Stem(markdown_file_path.name) \o <<"pdf">>]

\* main.py line 351: str(Path(file_path).with_suffix('.pdf'))
with_suffix_pdf(file_path) ==
    [kind |-> "str", dir |-> file_path.dir,
     name |-> (IF Len(file_path.name) > 1
                    /\ ~(Len(file_path.name) = 2 /\ file_path.name[1] = "")
               THEN Front(file_path.name) ELSE file_path.name) \o <<"pdf">>]

\* the text of a name: its parts with the dots between them
RECURSIVE DotJoin(_)
DotJoin(name) ==
    IF Len(name) <= 1 THEN name
    ELSE <<Head(name), ".">> \o DotJoin(Tail(name))

(***************************************************************************)
(* The source files on disk (read_markdown_file, lines 35-40)              *)
(***************************************************************************)
GuideMd == MdPath("docs", <<"guide", "md">>)
NotesMd == MdPath("docs", <<"notes", "v2", "md">>)
Readme == MdPath("", <<"README">>)
DotNotes == MdPath("docs", <<"", "notes">>)
AbsentMd == MdPath("docs", <<"absent", "md">>)

SourceFiles ==
    (GuideMd :> <<MdImage(LocalSmall), MdImage(RemoteDown),
                  RawImg(Img(RemoteWide, Str(<<"color: red">>))),
                  MdImage(LocalEmpty), MdImage(LocalMissing),
                  RawImg(Img(RemoteNotFound, Str(<<"max-width: 50%", ";">>))),
                  MdImage(LocalFlat), MdImage(RemoteEmpty)>>) @@
    (NotesMd :> <<>>) @@
    (Readme :> <<MdImage(LocalMissing), MdImage(AbsSvg), MdImage(LocalSmall)>>) @@
    (DotNotes :> <<MdImage(LocalDir)>>)

\* the file's text, or the exception raised at line 40
Markdown(items) == [kind |-> "markdown", items |-> items]
read_markdown_fileSwallows(file_path) ==
    IF file_path \in DOMAIN SourceFiles
    THEN Markdown(SourceFiles[file_path])
    ELSE Markdown(<<>>)
read_markdown_file(file_path) ==
    IF file_path \in DOMAIN SourceFiles
    THEN Markdown(SourceFiles[file_path])
    ELSE Exception(<<"Error reading markdown file: ", "FileNotFoundError">>)

(***************************************************************************)
(* Options: __init__ (lines 24-33), get_pdf_options (main.py 374-385)      *)
(***************************************************************************)
Options(page_size, top, right, bottom, left) ==
    ("page-size" :> page_size) @@
    ("margin-top" :> top) @@ ("margin-right" :> right) @@
    ("margin-bottom" :> bottom) @@ ("margin-left" :> left) @@
    ("encoding" :> "UTF-8") @@
    ("no-outline" :> "None") @@ ("enable-local-file-access" :> "None")

InitialOptionsOneInch == Options("A4", "1in", "1in", "1in", "1in")
InitialOptions == Options("A4", "0.75in", "0.75in", "0.75in", "0.75in")

\* f'{spin.value()}in' for the spin boxes' range 0..5
InchText(n) ==
    CASE n = 0 -> "0in" [] n = 1 -> "1in" [] n = 2 -> "2in"
      [] n = 3 -> "3in" [] n = 4 -> "4in" [] n = 5 -> "5in"
get_pdf_options(page_size, top, bottom, left, right) ==
    Options(page_size, InchText(top), InchText(right), InchText(bottom),
            InchText(left))

\* dict.update
update(old, new) ==
    [k \in DOMAIN old \cup DOMAIN new |->
        IF k \in DOMAIN new THEN new[k] ELSE old[k]]

(***************************************************************************)
(* Calls.  Thread 1 and thread 2 call convert_to_pdf on one converter,     *)
(* directly or as ConversionThread.run does.                               *)
(***************************************************************************)
Threads == {1, 2}

OutPdf == [kind |-> "str", dir |-> "out", name |-> <<"report", "pdf">>]
SourceArgs ==
    IF concurrent THEN {NotesMd, AbsentMd}
    ELSE {GuideMd, NotesMd, Readme, DotNotes, AbsentMd}
OutputArgs == IF concurrent THEN {None} ELSE {None, EmptyStr, OutPdf}
TitleArgs == IF concurrent THEN {None} ELSE {None, EmptyStr, Str(<<"Report">>)}
OptionArgs == {get_pdf_options("A4", 1, 1, 1, 1),
               get_pdf_options("Letter", 2, 0, 1, 1)}

NoLocals ==
    [full_html |-> None, output_pdf_path |-> None, temp_html_path |-> 0,
     created |-> 0, error |-> None, i |-> 1]

JobIdle ==
    /\ temp_files = <<>>
    /\ pdf_options = InitialOptions
    /\ options_updates = 0
    /\ temp_dir = {}
    /\ next_temp = 0
    /\ calls = 0
    /\ pc = [t \in Threads |-> "idle"]
    /\ call = [t \in Threads |-> None]
    /\ local = [t \in Threads |-> NoLocals]
    /\ render = [t \in Threads |-> Pending]
    /\ outcome = [t \in Threads |-> Pending]
    /\ emitted = [t \in Threads |-> <<>>]
    /\ progress = [t \in Threads |-> 0]

DocIdle == doc_title = Omitted /\ full_html = Pending
\* the window as MarkdownToPDFGUI.__init__ leaves it (main.py lines 63-70)
GuiIdle ==
    /\ convert_btn = TRUE
    /\ conversion_thread = 0
    /\ running = {}
    /\ handled = [t \in Threads |-> 0]
    /\ last_start = None
Init == JobIdle /\ concurrent = FALSE /\ image_data = Pending
        /\ max_width = DefaultMaxWidth /\ optimized = Pending
        /\ html_content = Pending /\ base_path = None
        /\ embedded = Pending /\ reembedded = Pending /\ DocIdle
        /\ GuiIdle
InitConc == JobIdle /\ concurrent = TRUE /\ image_data = Pending
            /\ max_width = DefaultMaxWidth /\ optimized = Pending
            /\ html_content = Pending /\ base_path = None
            /\ embedded = Pending /\ reembedded = Pending /\ DocIdle
        /\ GuiIdle

\* a caller that does not overlap its calls uses thread 1 for all of them
StartAllowed(t) ==
    /\ pc[t] = "idle"
    /\ calls < MaxCalls
    /\ concurrent \/ t = 1

Begin(t, args, at) ==
    /\ calls' = calls + 1
    /\ call' = [call EXCEPT ![t] = args]
    /\ pc' = [pc EXCEPT ![t] = at]
    /\ local' = [local EXCEPT ![t] = NoLocals]
    /\ render' = [render EXCEPT ![t] = Pending]
    /\ outcome' = [outcome EXCEPT ![t] = Pending]
    /\ emitted' = [emitted EXCEPT ![t] = <<>>]
    /\ progress' = [progress EXCEPT ![t] = 0]
    /\ UNCHANGED <<sideVars, converterVars, temp_dir, next_temp, concurrent>>

\* converter.convert_to_pdf(markdown_file_path, output_pdf_path, title)
ConvertToPdf(t) ==
    /\ StartAllowed(t)
    /\ \E src \in SourceArgs, out \in OutputArgs, title \in TitleArgs :
          Begin(t, [via |-> "direct", markdown_file_path |-> src,
                    output_pdf_path |-> out, title |-> title,
                    options |-> None], "read")

\* ConversionThread(converter, input_file, output_file, title, options).start()
ThreadStart(t) ==
    /\ StartAllowed(t)
    /\ \E src \in SourceArgs, out \in OutputArgs, title \in TitleArgs,
          options \in OptionArgs :
          Begin(t, [via |-> "thread", markdown_file_path |-> src,
                    output_pdf_path |-> out, title |-> title,
                    options |-> options], "run")

\* MarkdownToPDFConverter(): a new converter replaces the one in use
\* (main.py lines 402-405), once no call is under way
NewConverter ==
    /\ \A t \in Threads : pc[t] = "idle"
    /\ calls \in 1..(MaxCalls - 1)
    /\ temp_files' = <<>>
    /\ pdf_options' = InitialOptions
    /\ options_updates' = 0
    /\ call' = [t \in Threads |-> None]
    /\ local' = [t \in Threads |-> NoLocals]
    /\ render' = [t \in Threads |-> Pending]
    /\ outcome' = [t \in Threads |-> Pending]
    /\ emitted' = [t \in Threads |-> <<>>]
    /\ progress' = [t \in Threads |-> 0]
    /\ \E t \in Threads : call[t] # None
    /\ UNCHANGED <<sideVars, envVars, pc>>

\* run, lines 32-45: the options are merged into the converter's, and the
\* progress signals up to 80 are emitted before convert_to_pdf is called
RunUpdateOptions(t) ==
    /\ pc[t] = "run"
    /\ pdf_options' = update(pdf_options, call[t].options)
    /\ options_updates' = options_updates + 1
    /\ progress' = [progress EXCEPT ![t] = 80]
    /\ pc' = [pc EXCEPT ![t] = "read"]
    /\ UNCHANGED <<sideVars, temp_files, envVars, call, local, render, outcome,
                   emitted>>

\* the except clause of convert_to_pdf (lines 260-261), then finally
Raise(t, stage, e) ==
    /\ local' = [local EXCEPT ![t].error =
                    [stage |-> stage,
                     text |-> <<"Error converting to PDF: ">> \o e]]
    /\ pc' = [pc EXCEPT ![t] = "cleanup"]

\* line 236
Read(t) ==
    /\ pc[t] = "read"
    /\ LET markdown_content == read_markdown_file(call[t].markdown_file_path)
       IN IF IsException(markdown_content)
          THEN Raise(t, "read", markdown_content.text)
          ELSE /\ pc' = [pc EXCEPT ![t] = "assemble"]
               /\ UNCHANGED local
    /\ UNCHANGED <<sideVars, converterVars, envVars, call, render, outcome,
                   emitted, progress>>

\* lines 237-247: the HTML with its images embedded, the title, the full
\* document and the output path
Assemble(t) ==
    /\ pc[t] = "assemble"
    /\ LET markdown_file_path == call[t].markdown_file_path
           markdown_content == read_markdown_file(markdown_file_path)
           html_with_images ==
               embed_images_in_html(markdown_to_html(markdown_content),
                                    markdown_file_path)
           title == IF ~Truthy(call[t].title)
                    THEN Str(DotJoin(Stem(markdown_file_path.name)))
                    ELSE call[t].title
           output_pdf_path == IF ~Truthy(call[t].output_pdf_path)
                              THEN DefaultOutput(markdown_file_path)
                              ELSE call[t].output_pdf_path
       IN IF IsException(html_with_images)
          THEN Raise(t, "embed", <<html_with_images.text>>)
          ELSE /\ local' = [local EXCEPT
                    ![t].full_html = create_full_html(html_with_images, title),
                    ![t].output_pdf_path = output_pdf_path]
               /\ pc' = [pc EXCEPT ![t] = "tempfile"]
    /\ UNCHANGED <<sideVars, converterVars, envVars, call, render, outcome,
                   emitted, progress>>

\* lines 249-253.  NamedTemporaryFile may fail to create the file; write may
\* raise after the file exists and before its path is recorded; closing the
\* file (the end of the with block) may raise after the path is recorded.
TempOutcomes == {"ok", "create_fails", "write_fails", "close_fails"}
WriteTemp(t) ==
    /\ pc[t] = "tempfile"
    /\ \E o \in TempOutcomes :
          IF o = "create_fails"
          THEN /\ Raise(t, "tempfile", <<"OSError">>)
               /\ UNCHANGED <<temp_files, temp_dir, next_temp>>
          ELSE LET temp_html == next_temp + 1
               IN /\ next_temp' = temp_html
                  /\ temp_dir' = temp_dir \cup {temp_html}
                  /\ IF o = "write_fails"
                     THEN /\ local' = [local EXCEPT
                                ![t].created = temp_html,
                                ![t].error =
                                    [stage |-> "tempfile",
                                     text |-> <<"Error converting to PDF: ",
                                                "UnicodeEncodeError">>]]
                          /\ pc' = [pc EXCEPT ![t] = "cleanup"]
                          /\ UNCHANGED temp_files
                     ELSE /\ temp_files' = Append(temp_files, temp_html)
                          /\ IF o = "close_fails"
                             THEN /\ local' = [local EXCEPT
                                        ![t].created = temp_html,
                                        ![t].temp_html_path = temp_html,
                                        ![t].error =
                                            [stage |-> "tempfile",
                                             text |-> <<"Error converting to PDF: ",
                                                        "OSError">>]]
                                  /\ pc' = [pc EXCEPT ![t] = "cleanup"]
                             ELSE /\ local' = [local EXCEPT
                                        ![t].created = temp_html,
                                        ![t].temp_html_path = temp_html]
                                  /\ pc' = [pc EXCEPT ![t] = "render"]
    /\ UNCHANGED <<sideVars, pdf_options, options_updates, concurrent, calls,
                   call, render, outcome, emitted, progress>>

\* lines 255-256: pdfkit.from_file is called with the converter's options as
\* they are at the call
RenderStart(t) ==
    /\ pc[t] = "render"
    /\ render' = [render EXCEPT ![t] =
            Done([input |-> local[t].temp_html_path,
                  input_existed |-> local[t].temp_html_path \in temp_dir,
                  output |-> local[t].output_pdf_path,
                  options |-> pdf_options,
                  finished |-> FALSE,
                  wrote_output |-> FALSE])]
    /\ pc' = [pc EXCEPT ![t] = "rendering"]
    /\ UNCHANGED <<sideVars, converterVars, envVars, call, local, outcome,
                   emitted, progress>>

\* pdfkit.from_file returns, or raises; it cannot succeed without its input
RenderEnd(t) ==
    /\ pc[t] = "rendering"
    /\ \E ok \in BOOLEAN :
          /\ ok => render[t].value.input_existed
          /\ render' = [render EXCEPT ![t].value.finished = TRUE,
                                      ![t].value.wrote_output = ok]
          /\ IF ok
             THEN /\ pc' = [pc EXCEPT ![t] = "cleanup"]      \* line 258
                  /\ UNCHANGED local
             ELSE Raise(t, "render", <<"OSError: wkhtmltopdf reported an error">>)
    /\ UNCHANGED <<sideVars, converterVars, envVars, call, outcome, emitted,
                   progress>>

\* cleanup (lines 266-272), one temp_file of the loop: os.path.exists and
\* os.unlink are one step, since an unlink that finds the file gone raises
\* and is swallowed, which leaves the same state
CleanupStepSkips(t) ==
    /\ pc[t] = "cleanup"
    /\ local[t].i <= Len(temp_files)
    /\ temp_dir' = temp_dir
    /\ local' = [local EXCEPT ![t].i = local[t].i + 1]
    /\ UNCHANGED <<sideVars, converterVars, next_temp, concurrent, calls, pc,
                   call, render, outcome, emitted, progress>>
CleanupStep(t) ==
    /\ pc[t] = "cleanup"
    /\ local[t].i <= Len(temp_files)
    /\ temp_dir' = temp_dir \ {temp_files[local[t].i]}
    /\ local' = [local EXCEPT ![t].i = local[t].i + 1]
    /\ UNCHANGED <<sideVars, converterVars, next_temp, concurrent, calls, pc,
                   call, render, outcome, emitted, progress>>

\* the loop is over: convert_to_pdf returns output_pdf_path or raises
CleanupDone(t) ==
    /\ pc[t] = "cleanup"
    /\ local[t].i > Len(temp_files)
    /\ outcome' = [outcome EXCEPT ![t] =
            Done([raised |-> local[t].error # None,
                  value |-> IF local[t].error = None
                            THEN local[t].output_pdf_path ELSE None,
                  error |-> local[t].error])]
    /\ pc' = [pc EXCEPT ![t] = IF call[t].via = "thread" THEN "emit" ELSE "idle"]
    /\ UNCHANGED <<sideVars, converterVars, envVars, call, local, render,
                   emitted, progress>>

\* run, lines 53-59.  conversion_finished is declared (bool, str): emit
\* raises TypeError for an argument PyQt does not take as a str, so for a
\* pathlib.Path both outcomes are kept; the TypeError is raised inside the
\* try block and handled at lines 57-59
EmitFinished(t) ==
    /\ pc[t] = "emit"
    /\ IF outcome[t].value.raised
       THEN /\ emitted' = [emitted EXCEPT ![t] =
                    Append(@, [success |-> FALSE,
                               result |-> Str(outcome[t].value.error.text)])]
            /\ UNCHANGED progress
       ELSE /\ progress' = [progress EXCEPT ![t] = 100]
            /\ \E accepted \in BOOLEAN :
                  /\ outcome[t].value.value.kind = "str" => accepted
                  /\ emitted' = [emitted EXCEPT ![t] =
                        Append(@, IF accepted
                                  THEN [success |-> TRUE,
                                        result |-> outcome[t].value.value]
                                  ELSE [success |-> FALSE,
                                        result |-> Str(<<"TypeError">>)])]
    /\ pc' = [pc EXCEPT ![t] = "idle"]
    /\ UNCHANGED <<sideVars, converterVars, envVars, call, local, render,
                   outcome>>

Next ==
    \/ NewConverter
    \/ \E t \in Threads : ConvertToPdf(t)
    \/ \E t \in Threads : ThreadStart(t)
    \/ \E t \in Threads : RunUpdateOptions(t)
    \/ \E t \in Threads : Read(t)
    \/ \E t \in Threads : Assemble(t)
    \/ \E t \in Threads : WriteTemp(t)
    \/ \E t \in Threads : RenderStart(t)
    \/ \E t \in Threads : RenderEnd(t)
    \/ \E t \in Threads : CleanupStep(t)
    \/ \E t \in Threads : CleanupDone(t)
    \/ \E t \in Threads : EmitFinished(t)

Spec == Init /\ [][Next]_vars
SpecConc == InitConc /\ [][Next]_vars

(***************************************************************************)
(* SpecOpt: optimize_image on every image of the bounded domain            *)
(***************************************************************************)
ImageInputs ==
    {Junk, EmptyBytes} \cup
    {ImageBytes(FormatOf(mode), mode, w, h) :
        mode \in Modes, w \in 1..MaxDim, h \in 1..MaxDim}

EmbedIdle ==
    /\ html_content = Pending
    /\ base_path = None
    /\ embedded = Pending
    /\ reembedded = Pending

InitOpt ==
    /\ image_data \in {Done(bytes) : bytes \in ImageInputs}
    /\ max_width \in 1..MaxWidthArg
    /\ optimized = Pending
    /\ EmbedIdle /\ DocIdle /\ GuiIdle
    /\ JobIdle /\ concurrent = FALSE

OptimizeImage ==
    /\ optimized = Pending
    /\ image_data.done
    /\ optimized' = Done(optimize_image(image_data.value, max_width))
    /\ UNCHANGED <<image_data, max_width, html_content, base_path, embedded,
                   reembedded, docVars, guiVars, jobVars>>

NextOpt == OptimizeImage
SpecOpt == InitOpt /\ [][NextOpt]_vars

(***************************************************************************)
(* SpecEmbed: embed_images_in_html on a document, then on its own output   *)
(***************************************************************************)
Styles == {NoAttr, Str(<<"color: red">>), Str(<<"max-width: 50%", ";">>)}
Tags == {Img(src, style) : src \in Refs \cup {NoAttr, EmptyStr}, style \in Styles}
Documents == {Html(tags) : tags \in UNION {[1..n -> Tags] : n \in 0..MaxImgs}}
BasePaths == {None, MdPath("docs", <<"guide", "md">>), MdPath("", <<"guide", "md">>)}

OptIdle ==
    /\ image_data = Pending
    /\ max_width = DefaultMaxWidth
    /\ optimized = Pending

InitEmbed ==
    /\ html_content \in {Done(document) : document \in Documents}
    /\ base_path \in BasePaths
    /\ embedded = Pending
    /\ reembedded = Pending
    /\ OptIdle /\ DocIdle /\ GuiIdle
    /\ JobIdle /\ concurrent = FALSE

EmbedImages ==
    /\ embedded = Pending
    /\ html_content.done
    /\ embedded' = Done(embed_images_in_html(html_content.value, base_path))
    /\ UNCHANGED <<image_data, max_width, optimized, html_content, base_path,
                   reembedded, docVars, guiVars, jobVars>>

EmbedAgain ==
    /\ embedded.done
    /\ embedded.value.kind = "html"
    /\ reembedded = Pending
    /\ reembedded' = Done(embed_images_in_html(embedded.value, base_path))
    /\ UNCHANGED <<image_data, max_width, optimized, html_content, base_path,
                   embedded, docVars, guiVars, jobVars>>

NextEmbed == EmbedImages \/ EmbedAgain
SpecEmbed == InitEmbed /\ [][NextEmbed]_vars

(***************************************************************************)
(* create_full_html called on its own: with a title, with an empty title,  *)
(* and with no title argument                                              *)
(***************************************************************************)
TitleInputs == {Omitted, EmptyStr, Str(<<"Report">>)}

InitDoc ==
    /\ html_content \in {Done(document) : document \in Documents}
    /\ doc_title \in TitleInputs
    /\ full_html = Pending
    /\ base_path = None
    /\ embedded = Pending
    /\ reembedded = Pending
    /\ OptIdle /\ GuiIdle
    /\ JobIdle /\ concurrent = FALSE

CreateFullHtml ==
    /\ full_html = Pending
    /\ html_content.done
    /\ full_html' = Done(create_full_html(html_content.value, doc_title))
    /\ UNCHANGED <<image_data, max_width, optimized, html_content, base_path,
                   embedded, reembedded, doc_title, guiVars, jobVars>>

NextDoc == CreateFullHtml
SpecDoc == InitDoc /\ [][NextDoc]_vars

(***************************************************************************)
(* The window (main.py): start_conversion launches a ConversionThread, the *)
(* thread runs as above, its conversion_finished signal is handled in the  *)
(* window's thread, and the thread's run returns after its last emit.      *)
(***************************************************************************)
\* what the line edits may hold when the button is clicked, after strip()
InputTexts == {EmptyStr, AbsentMd, NotesMd, Readme}
OutputTexts == {EmptyStr, OutPdf}
TitleTexts == {EmptyStr, Str(<<"Report">>)}
\* os.path.exists(input_file), line 393
input_exists(input_file) == input_file \in DOMAIN SourceFiles

NoInputWarning == "Please select an input markdown file."
NotFoundWarning == "Input file does not exist."
Started(input_file, warning, thread) ==
    [input_file |-> input_file, warning |-> warning, thread |-> thread]

\* lines 389-395: a warning box, and nothing else
Warn(input_file, warning) ==
    /\ last_start' = Started(input_file, warning, 0)
    /\ UNCHANGED <<convert_btn, conversion_thread, running, handled, jobVars>>

\* lines 397-425: a new converter, the button disabled, a new thread started
Launch(t, input_file, output_file, title, options) ==
    /\ temp_files' = <<>>
    /\ pdf_options' = InitialOptions
    /\ options_updates' = 0
    /\ convert_btn' = FALSE
    /\ conversion_thread' = t
    /\ running' = running \cup {t}
    /\ handled' = [handled EXCEPT ![t] = 0]
    /\ last_start' = Started(input_file, "", t)
    /\ calls' = calls + 1
    /\ call' = [call EXCEPT ![t] =
                    [via |-> "thread", markdown_file_path |-> input_file,
                     output_pdf_path |-> output_file, title |-> title,
                     options |-> options]]
    /\ pc' = [pc EXCEPT ![t] = "run"]
    /\ local' = [local EXCEPT ![t] = NoLocals]
    /\ render' = [render EXCEPT ![t] = Pending]
    /\ outcome' = [outcome EXCEPT ![t] = Pending]
    /\ emitted' = [emitted EXCEPT ![t] = <<>>]
    /\ progress' = [progress EXCEPT ![t] = 0]
    /\ UNCHANGED <<temp_dir, next_temp, concurrent>>

\* the thread objects that are not in use
FreeThreads == {t \in Threads : t \notin running /\ pc[t] = "idle"}
FirstFree == CHOOSE t \in FreeThreads : \A u \in FreeThreads : t <= u

\* start_conversion (lines 387-425), the slot of convert_btn.clicked (line
\* 176): a disabled button emits no clicked signal
StartConversion ==
    /\ convert_btn
    /\ calls < MaxCalls
    /\ \E input_file \in InputTexts, output_file \in OutputTexts,
          title \in TitleTexts, options \in OptionArgs :
          IF input_file = EmptyStr
          THEN Warn(input_file, NoInputWarning)
          ELSE IF ~input_exists(input_file)
          THEN Warn(input_file, NotFoundWarning)
          ELSE /\ FreeThreads # {}
               /\ Launch(FirstFree, input_file, output_file, title, options)
    /\ UNCHANGED <<imgVars, docVars>>

\* conversion_finished(success, result), lines 431-449: the slot runs in
\* the window's thread for a signal the worker has emitted
HandleFinished(t) ==
    /\ handled[t] < Len(emitted[t])
    /\ convert_btn' = TRUE
    /\ handled' = [handled EXCEPT ![t] = @ + 1]
    /\ UNCHANGED <<conversion_thread, running, last_start, imgVars, docVars,
                   jobVars>>

\* run returns after its last emit (lines 55 and 59): isRunning() ends
RunReturns(t) ==
    /\ t \in running
    /\ pc[t] = "idle"
    /\ running' = running \ {t}
    /\ UNCHANGED <<convert_btn, conversion_thread, handled, last_start,
                   imgVars, docVars, jobVars>>

NextGui ==
    \/ StartConversion
    \/ \E t \in Threads : RunUpdateOptions(t)
    \/ \E t \in Threads : Read(t)
    \/ \E t \in Threads : Assemble(t)
    \/ \E t \in Threads : WriteTemp(t)
    \/ \E t \in Threads : RenderStart(t)
    \/ \E t \in Threads : RenderEnd(t)
    \/ \E t \in Threads : CleanupStep(t)
    \/ \E t \in Threads : CleanupDone(t)
    \/ \E t \in Threads : EmitFinished(t)
    \/ \E t \in Threads : HandleFinished(t)
    \/ \E t \in Threads : RunReturns(t)

SpecGui == Init /\ [][NextGui]_vars

(***************************************************************************)
(* Claims about optimize_image (SpecOpt)                                   *)
(***************************************************************************)
Decodable == image_data.done /\ image_data.value.kind = "image"
InW == image_data.value.width
InH == image_data.value.height
Out == optimized.value
Reencoded == Out.kind = "image" /\ Out.encoder = "PIL"
\* the modes this model's inputs can have that the JPEG encoder refuses
\* after the RGBA/LA/P normalisation
Unwritable == {"I", "F"}

\* C5 as stated: a decodable image wider than max_width comes out max_width
\* wide and round(h * max_width / w) high (nearest integer); an image not
\* wider than max_width keeps its width and height.
C5_AsStated ==
    (optimized.done /\ Decodable) =>
        /\ InW > max_width =>
              /\ Out.kind = "image"
              /\ Out.width = max_width
              /\ 2 * Out.height * InW - 2 * InH * max_width \in (0 - InW)..InW
        /\ InW <= max_width => (Out.width = InW /\ Out.height = InH)

\* C5 amended: an image not wider than max_width keeps its width and height;
\* a wider image that is re-encoded comes out max_width wide and
\* int(h * (max_width / w)) high, the double product truncated toward zero:
\* at least 1, never above h * max_width / w and never a whole pixel or more
\* below it except by exactly one when the quotient is a whole number; a
\* wider image is re-encoded unless the truncated height is 0 or its mode
\* cannot be written as JPEG, and then the original bytes come back.
C5_TruncatedHeight ==
    (optimized.done /\ Decodable) =>
        /\ InW <= max_width => (Out.width = InW /\ Out.height = InH)
        /\ (InW > max_width /\ Reencoded) =>
              /\ Out.width = max_width
              /\ Out.height >= 1
              /\ Out.height * InW <= InH * max_width
              /\ InH * max_width <= (Out.height + 1) * InW
              /\ (InH * max_width) % InW # 0 =>
                    InH * max_width < (Out.height + 1) * InW
        /\ (InW > max_width /\ ~Reencoded) =>
              /\ Out = image_data.value
              /\ \/ image_data.value.mode \in Unwritable
                 \/ InH * max_width < 2 * InW
        /\ (InW > max_width /\ InH * max_width > InW
                /\ image_data.value.mode \notin Unwritable) => Reencoded

\* a wider image whose exact height has a fractional part of one half or
\* more has been re-encoded: rounding and truncation differ here
C5_Witness ==
    /\ optimized.done /\ Decodable
    /\ InW > max_width
    /\ Reencoded
    /\ 2 * ((InH * max_width) % InW) >= InW

\* C6 as stated: whatever bytes optimize_image is given, it returns a JPEG.
C6_AsStated ==
    optimized.done => (Out.kind = "image" /\ Out.format = "JPEG")

\* C6 amended: a decodable image whose mode is JPEG-writable after the
\* RGBA/LA/P -> RGB normalisation, and whose resized height is at least 1,
\* comes back as a JPEG written by the encoder (RGB for paletted and alpha
\* inputs); any other input (undecodable bytes, modes such as I or F, a
\* resized height of 0) comes back as the original bytes, unchanged.
C6_JpegOrOriginal ==
    optimized.done =>
        \/ /\ Decodable
           /\ image_data.value.mode \notin Unwritable
           /\ Reencoded
           /\ Out.format = "JPEG"
           /\ Out.mode \in {"L", "RGB", "CMYK"}
           /\ image_data.value.mode \in {"RGBA", "LA", "P", "RGB"} => Out.mode = "RGB"
        \/ /\ Out = image_data.value
           /\ \/ ~Decodable
              \/ image_data.value.mode \in Unwritable
              \/ InW > max_width /\ InH * max_width < 2 * InW

\* a paletted image has come back as an RGB JPEG
C6_Witness ==
    /\ optimized.done /\ Decodable
    /\ image_data.value.mode = "P"
    /\ Reencoded /\ Out.format = "JPEG" /\ Out.mode = "RGB"

(***************************************************************************)
(* Claims about embed_images_in_html on its own output (SpecEmbed)         *)
(***************************************************************************)
IsDataUri(src) ==
    /\ src # NoAttr
    /\ src # EmptyStr
    /\ src.prefix = "data:image/jpeg;base64,"

\* C7: embed_images_in_html applied to its own output does not raise, and
\* every img element that already carries a data: URI keeps its src and its
\* style, whatever the base path.
C7_Idempotent ==
    reembedded.done =>
        /\ reembedded.value.kind = "html"
        /\ Len(reembedded.value.tags) = Len(embedded.value.tags)
        /\ \A i \in 1..Len(embedded.value.tags) :
              IsDataUri(embedded.value.tags[i].src) =>
                  reembedded.value.tags[i] = embedded.value.tags[i]

\* the second application has run over a document with an embedded image
C7_Witness ==
    /\ reembedded.done
    /\ base_path # None
    /\ \E i \in 1..Len(embedded.value.tags) :
          /\ IsDataUri(embedded.value.tags[i].src)
          /\ ~IsDataUri(html_content.value.tags[i].src)

\* the text of a style attribute, and the declarations a CSS parser reads
\* from it: a piece of text stands as a declaration when only blanks lie
\* between it and the nearest ";" (or the end of the text) on either side
StyleText(style) == IF style = NoAttr THEN <<>> ELSE style.text
Between(i, j) == IF i < j THEN (i + 1)..(j - 1) ELSE (j + 1)..(i - 1)
IsDeclarationAt(text, i) ==
    /\ text[i] \notin {";", " "}
    /\ \A j \in 1..Len(text) :
          (j # i /\ text[j] \notin {";", " "}) =>
              \E k \in Between(i, j) : text[k] = ";"
Declarations(text) ==
    {text[i] : i \in {k \in 1..Len(text) : IsDeclarationAt(text, k)}}
ResponsiveConstraints == {"max-width: 100%", "height: auto"}

\* C11 as stated: every img element embed_images_in_html rewrites keeps
\* each declaration of its former style as a declaration, has max-width:
\* 100% and height: auto among its declarations, and got text appended only
\* if its former style did not hold both already; an element that is not
\* rewritten keeps its style attribute as it was.
C11_AsStated ==
    (embedded.done /\ embedded.value.kind = "html") =>
        \A i \in 1..Len(html_content.value.tags) :
            LET before == html_content.value.tags[i]
                after == embedded.value.tags[i]
                was == StyleText(before.style)
                now == StyleText(after.style)
            IN IF after.src # before.src
               THEN /\ Declarations(was) \subseteq Declarations(now)
                    /\ ResponsiveConstraints \subseteq Declarations(now)
                    /\ now # was =>
                          ~(ResponsiveConstraints \subseteq Declarations(was))
               ELSE after.style = before.style

(***************************************************************************)
(* Claims about convert_to_pdf and ConversionThread.run (Spec, SpecConc)   *)
(***************************************************************************)
Called(t) == call[t] # None
Returned(t) == outcome[t].done /\ ~outcome[t].value.raised
RaisedAt(t, stage) ==
    /\ outcome[t].done
    /\ outcome[t].value.raised
    /\ outcome[t].value.error.stage = stage

TagsBefore(t) ==
    markdown_to_html(Markdown(SourceFiles[call[t].markdown_file_path])).tags
TagsAfter(t) == local[t].full_html.body.tags
\* the references of the source files, by what the environment holds for
\* them: nothing (no response, an error status, no file), empty content, or
\* content
UnavailableRefs == {RemoteDown, RemoteNotFound, LocalMissing, LocalDir}
EmptyRefs == {RemoteEmpty, LocalEmpty}
ContentRefs == {RemoteWide, LocalSmall, LocalFlat, AbsSvg}
NoEmbedFailure(t) ==
    /\ local[t].error # None => local[t].error.stage \in {"read", "tempfile", "render"}
    /\ (render[t].done /\ render[t].value.wrote_output /\ outcome[t].done) =>
          (Returned(t) /\ outcome[t].value.value = local[t].output_pdf_path)

\* C2 as stated: an img whose reference is unavailable keeps its src and
\* style, nothing is raised, every img whose reference is available is
\* rewritten to a data URI, and convert_to_pdf goes on to the renderer and
\* returns the destination path.
C2_AsStated ==
    \A t \in Threads :
        /\ NoEmbedFailure(t)
        /\ local[t].full_html # None =>
              \A i \in 1..Len(TagsBefore(t)) :
                  /\ TagsBefore(t)[i].src \in UnavailableRefs =>
                        TagsAfter(t)[i] = TagsBefore(t)[i]
                  /\ TagsBefore(t)[i].src \in ContentRefs \cup EmptyRefs =>
                        IsDataUri(TagsAfter(t)[i].src)

\* C2 amended: an img whose reference is unavailable, or yields no bytes at
\* all (an empty file, an empty response body), keeps its src and style,
\* nothing is raised, every img whose reference yields at least one byte is
\* rewritten to a data URI, and convert_to_pdf goes on to the renderer and
\* returns the destination path.
C2_UnavailableLeftAlone ==
    \A t \in Threads :
        /\ NoEmbedFailure(t)
        /\ local[t].full_html # None =>
              /\ Len(TagsAfter(t)) = Len(TagsBefore(t))
              /\ \A i \in 1..Len(TagsBefore(t)) :
                    /\ TagsBefore(t)[i].src \in UnavailableRefs \cup EmptyRefs =>
                          TagsAfter(t)[i] = TagsBefore(t)[i]
                    /\ TagsBefore(t)[i].src \in ContentRefs =>
                          IsDataUri(TagsAfter(t)[i].src)

\* a call on a document with unreachable, missing and present images has
\* returned its destination path
C2_Witness ==
    \E t \in Threads :
        /\ Returned(t)
        /\ render[t].done /\ render[t].value.wrote_output
        /\ \E i, j \in 1..Len(TagsBefore(t)) :
              /\ TagsBefore(t)[i].src = RemoteDown
              /\ TagsAfter(t)[i] = TagsBefore(t)[i]
              /\ TagsBefore(t)[j].src = LocalSmall
              /\ IsDataUri(TagsAfter(t)[j].src)

\* a renderer invocation made by a direct call on a converter whose options
\* nobody has updated since __init__
DefaultRender(t) ==
    /\ Called(t)
    /\ call[t].via = "direct"
    /\ options_updates = 0
    /\ render[t].done
Margins == {"margin-top", "margin-right", "margin-bottom", "margin-left"}

\* C3 as stated: with no option overrides the renderer is handed page-size
\* A4 and four margins of 1 inch.
C3_AsStated ==
    \A t \in Threads :
        DefaultRender(t) =>
            /\ render[t].value.options["page-size"] = "A4"
            /\ \A k \in Margins : render[t].value.options[k] = "1in"

\* C3 amended: with no option overrides the renderer is handed page-size A4
\* and four margins of 0.75 inch.
C3_DefaultOptions ==
    \A t \in Threads :
        DefaultRender(t) =>
            /\ render[t].value.options["page-size"] = "A4"
            /\ \A k \in Margins : render[t].value.options[k] = "0.75in"

C3_Witness == \E t \in Threads : DefaultRender(t) /\ render[t].value.finished

\* C4: without a destination (None or "") the path handed to the renderer,
\* and returned on success, is the source path with its extension replaced
\* by .pdf, in the source's directory; a given destination is handed on and
\* returned as it is.
C4_OutputPath ==
    \A t \in Threads :
        render[t].done =>
            LET source == call[t].markdown_file_path
                given == call[t].output_pdf_path
                n == source.name
                has_extension == Len(n) >= 2 /\ SubSeq(n, 1, Len(n) - 1) # <<"">>
                expected == (IF has_extension THEN SubSeq(n, 1, Len(n) - 1) ELSE n)
                                \o <<"pdf">>
                output == render[t].value.output
            IN /\ IF given = None \/ given = EmptyStr
                  THEN /\ output.dir = source.dir
                       /\ output.name = expected
                       /\ output.name = with_suffix_pdf(source).name
                  ELSE output = given
               /\ Returned(t) => outcome[t].value.value = output

\* a call without a destination on a source with two dots in its name has
\* returned
C4_Witness ==
    \E t \in Threads :
        /\ Returned(t)
        /\ call[t].output_pdf_path = None
        /\ Len(call[t].markdown_file_path.name) = 3

\* C8: when the source file cannot be read, convert_to_pdf raises the read
\* error wrapped in the conversion error, and no later stage runs: no
\* document is assembled, no temporary file is created, the renderer is not
\* invoked and writes nothing.
C8_ReadFailure ==
    \A t \in Threads :
        (Called(t) /\ call[t].markdown_file_path
                          \notin {GuideMd, NotesMd, Readme, DotNotes}) =>
            /\ pc[t] \in {"run", "read", "cleanup", "emit", "idle"}
            /\ local[t].full_html = None
            /\ local[t].created = 0
            /\ local[t].temp_html_path = 0
            /\ render[t] = Pending
            /\ outcome[t].done =>
                  /\ outcome[t].value.raised
                  /\ Len(outcome[t].value.error.text) = 3
                  /\ outcome[t].value.error.text[1] = "Error converting to PDF: "
                  /\ outcome[t].value.error.text[2] = "Error reading markdown file: "

C8_Witness ==
    \E t \in Threads :
        /\ Called(t)
        /\ call[t].markdown_file_path = AbsentMd
        /\ outcome[t].done

\* C9: a run emits conversion_finished at most once, and exactly once by the
\* time it is over; success=True and progress 100 come only after
\* convert_to_pdf returned its destination path; a failed read or renderer
\* is reported with success=False and the error text, never as success; and
\* when the renderer failure reaches the caller the temporary file is gone.
RunOver(t) == Called(t) /\ call[t].via = "thread" /\ pc[t] = "idle"
C9_OneOutcome ==
    \A t \in Threads :
        (Called(t) /\ call[t].via = "thread") =>
            /\ Len(emitted[t]) <= 1
            /\ RunOver(t) <=> Len(emitted[t]) = 1
            /\ progress[t] = 100 => Returned(t)
            /\ \A i \in 1..Len(emitted[t]) :
                  emitted[t][i].success =>
                      /\ Returned(t)
                      /\ progress[t] = 100
                      /\ emitted[t][i].result = outcome[t].value.value
                      /\ render[t].done /\ render[t].value.wrote_output
            /\ (RunOver(t) /\ (RaisedAt(t, "read") \/ RaisedAt(t, "render"))) =>
                  emitted[t] = <<[success |-> FALSE,
                                  result |-> Str(outcome[t].value.error.text)]>>
            /\ RaisedAt(t, "render") =>
                  /\ local[t].temp_html_path # 0
                  /\ local[t].temp_html_path \notin temp_dir

\* a run whose renderer failed is over
C9_Witness ==
    \E t \in Threads :
        /\ RunOver(t)
        /\ RaisedAt(t, "render")
        /\ Len(emitted[t]) = 1

\* C10 as stated: when two calls on one converter interleave, a job's
\* temporary file exists from its creation until its renderer invocation
\* has finished, its path stays in temp_files, and the renderer is handed
\* the options the job was started with.
C10_AsStated ==
    \A t \in Threads :
        /\ pc[t] \in {"render", "rendering"} =>
              /\ local[t].temp_html_path \in temp_dir
              /\ \E i \in 1..Len(temp_files) : temp_files[i] = local[t].temp_html_path
        /\ (render[t].done /\ call[t].via = "thread") =>
              render[t].value.options = call[t].options

(***************************************************************************)
(* Claims about the title of the assembled document (SpecDoc, Spec)        *)
(***************************************************************************)
\* the title in a document create_full_html returned on a direct call
DirectTitleNeverEmpty ==
    full_html.done =>
        /\ full_html.value.title # EmptyStr
        /\ doc_title = EmptyStr => full_html.value.title = DefaultTitle
\* the title in the document convert_to_pdf assembled
ConvertTitleNeverEmpty ==
    \A t \in Threads :
        (Called(t) /\ local[t].full_html # None) =>
            /\ local[t].full_html.title # EmptyStr
            /\ call[t].title \in {None, EmptyStr} =>
                  local[t].full_html.title =
                      Str(DotJoin(Stem(call[t].markdown_file_path.name)))

\* C12 as stated: the title of the assembled document is never empty:
\* create_full_html called with an empty title uses "Converted Document",
\* and convert_to_pdf called with no title (None or empty) uses the stem of
\* the source file's name.
C12_AsStated == DirectTitleNeverEmpty /\ ConvertTitleNeverEmpty

(***************************************************************************)
(* Claims about the window (SpecGui)                                       *)
(***************************************************************************)
\* a ConversionThread runs from start() until run returns: isRunning(), as
\* closeEvent asks at main.py line 499
OneThreadRunning == Cardinality(running) <= 1
\* the button from the launch of a thread to the handling of its signal,
\* and after it, whatever the outcome
ButtonFollowsThread ==
    conversion_thread # 0 =>
        /\ handled[conversion_thread] = 0 => ~convert_btn
        /\ handled[conversion_thread] > 0 => convert_btn
\* no thread for an input path that is empty or does not exist
NoThreadWithoutInput ==
    last_start # None =>
        ((last_start.input_file = EmptyStr
            \/ last_start.input_file \notin DOMAIN SourceFiles) =>
                /\ last_start.thread = 0
                /\ last_start.warning # "")

\* C13 as stated: at most one ConversionThread is running at any time; the
\* convert button is disabled from the launch of a thread until that
\* thread's conversion_finished signal is handled and is enabled again
\* after it, on success and on failure; start_conversion launches no thread
\* when the input path is empty or does not exist.
C13_AsStated ==
    /\ OneThreadRunning
    /\ ButtonFollowsThread
    /\ NoThreadWithoutInput
====
